---- MODULE Spec2Model ----
(***************************************************************************)
(* A model of the in-memory todo list of src/todo.py: the TodoApp object   *)
(* (the record list `todos` and the counter `next_id`), its five mutating  *)
(* methods and its renderer.                                               *)
(*                                                                         *)
(* A Python str is a sequence of one-character strings; None and str       *)
(* values are wrapped in records so that they can be compared.             *)
(***************************************************************************)
EXTENDS Integers, Sequences, FiniteSets, TLC

VARIABLES
    todos,      \* TodoApp.todos: the list of todo dicts, in list order
    next_id,    \* TodoApp.next_id
    issued,     \* history: the ids given to records by add_todo so far
    last,       \* history: the last call, what it was passed and what it did
    requests    \* per worker thread: where it is in add_todo, and its local todo

vars == <<todos, next_id, issued, last, requests>>

----------------------------------------------------------------------------
(* Bounds of the model *)

\* most whitespace characters typed on either side of a text
MaxPad == 1

\* add_todo stops creating records once next_id has passed MaxId
MaxId == 3

----------------------------------------------------------------------------
(* Python values *)

\* The characters str.strip() takes away. The texts of the model are made of
\* one of them and of one character that is not whitespace (and that is
\* significant in markup).
Whitespace == {" "}

None == [kind |-> "None", chars |-> <<>>]

Str(s) == [kind |-> "str", chars |-> s]

\* n whitespace characters
RECURSIVE Spaces(_)
Spaces(n) == IF n = 0 THEN <<>> ELSE <<" ">> \o Spaces(n - 1)

\* the texts typed without whitespace around them: one character, and words
\* with whitespace between them
Words == {<<"<">>, <<"<", " ", "<">>}

\* what a caller may pass as text: None, a string of whitespace only (the
\* empty string is one) or a text with whitespace on either side of it
TextInputs ==
    {None}
    \cup {Str(Spaces(k)) : k \in 0..MaxPad}
    \cup {Str(Spaces(a) \o w \o Spaces(b)) : w \in Words, a \in 0..MaxPad, b \in 0..MaxPad}

\* Python truthiness of an Optional[str]: None and "" are falsy
Falsy(t) == t = None \/ t.chars = <<>>

RECURSIVE lstrip(_)
lstrip(s) == IF s # <<>> /\ Head(s) \in Whitespace THEN lstrip(Tail(s)) ELSE s

RECURSIVE rstrip(_)
rstrip(s) ==
    IF s # <<>> /\ s[Len(s)] \in Whitespace
    THEN rstrip(SubSeq(s, 1, Len(s) - 1))
    ELSE s

\* str.strip(): drop leading and trailing whitespace
strip(s) == rstrip(lstrip(s))

\* datetime.now(): the wall clock, which nothing keeps from stepping back.
\* A reading is modelled down to the second; the microseconds, which the
\* format of created_at drops, are left out.
Now == [second : {0, 1}]

\* strftime("%Y-%m-%d %H:%M:%S"): the timestamp down to the second
strftime(now) == now.second

\* the ids a caller may pass: every id a record can have, and one none has
TodoIds == 1..(MaxId + 1)

----------------------------------------------------------------------------
(* TodoApp: each method maps the object (self) and its arguments to the    *)
(* object after the call and the value returned.                           *)

Self == [todos |-> todos, next_id |-> next_id]

\* TodoApp.__init__
TodoApp == [todos |-> <<>>, next_id |-> 1]

\* a slip: a search that answers -1 when it finds nothing, which Python then
\* reads as the position of the last dict
FirstMatch_or_last(ts, todo_id) ==
    IF \E i \in 1..Len(ts) : ts[i].id = todo_id
    THEN CHOOSE i \in 1..Len(ts) :
            /\ ts[i].id = todo_id
            /\ \A j \in 1..(i - 1) : ts[j].id # todo_id
    ELSE Len(ts)

\* position of the first dict of ts whose id is todo_id, 0 if none: where the
\* loop `for todo in self.todos: if todo["id"] == todo_id: ...; break` acts
FirstMatch(ts, todo_id) ==
    IF \E i \in 1..Len(ts) : ts[i].id = todo_id
    THEN CHOOSE i \in 1..Len(ts) :
            /\ ts[i].id = todo_id
            /\ \A j \in 1..(i - 1) : ts[j].id # todo_id
    ELSE 0

\* a slip: the completed count taken over the todos that are not completed
get_todos_display_counts_pending(self) ==
    IF self.todos = <<>>
    THEN [empty |-> TRUE, total |-> 0, completed |-> 0, pending |-> 0, rows |-> <<>>]
    ELSE LET total == Len(self.todos)
             completed == Cardinality({i \in 1..Len(self.todos) : ~self.todos[i].completed})
         IN  [empty |-> FALSE,
              total |-> total,
              completed |-> completed,
              pending |-> total - completed,
              rows |-> [i \in 1..Len(self.todos) |->
                          [completed_class |-> IF self.todos[i].completed
                                               THEN "todo-completed" ELSE "",
                           text |-> self.todos[i].text,
                           created_at |-> self.todos[i].created_at]]]

\* TodoApp.get_todos_display: the empty-state block, or the stats block
\* followed by one row per todo with its text inserted as it is
get_todos_display(self) ==
    IF self.todos = <<>>
    THEN [empty |-> TRUE, total |-> 0, completed |-> 0, pending |-> 0, rows |-> <<>>]
    ELSE LET total == Len(self.todos)
             completed == Cardinality({i \in 1..Len(self.todos) : self.todos[i].completed})
         IN  [empty |-> FALSE,
              total |-> total,
              completed |-> completed,
              pending |-> total - completed,
              rows |-> [i \in 1..Len(self.todos) |->
                          [completed_class |-> IF self.todos[i].completed
                                               THEN "todo-completed" ELSE "",
                           text |-> self.todos[i].text,
                           created_at |-> self.todos[i].created_at]]]

\* a slip: `self.next_id += 1` left out
add_todo_keeps_next_id(self, text, now) ==
    IF Falsy(text) \/ strip(text.chars) = <<>>
    THEN [self |-> self, error |-> "Please enter a todo item"]
    ELSE LET todo == [id |-> self.next_id,
                      text |-> strip(text.chars),
                      completed |-> FALSE,
                      created_at |-> strftime(now)]
         IN  [self |-> [self EXCEPT !.todos = Append(self.todos, todo)],
              error |-> ""]

\* a slip: `if not text:` alone, without the test of the stripped text
add_todo_checks_empty_only(self, text, now) ==
    IF Falsy(text)
    THEN [self |-> self, error |-> "Please enter a todo item"]
    ELSE LET todo == [id |-> self.next_id,
                      text |-> strip(text.chars),
                      completed |-> FALSE,
                      created_at |-> strftime(now)]
         IN  [self |-> [todos |-> Append(self.todos, todo),
                        next_id |-> self.next_id + 1],
              error |-> ""]

\* a slip: `self.todos.insert(0, todo)`, the newest record first
add_todo_inserts_first(self, text, now) ==
    IF Falsy(text) \/ strip(text.chars) = <<>>
    THEN [self |-> self, error |-> "Please enter a todo item"]
    ELSE LET todo == [id |-> self.next_id,
                      text |-> strip(text.chars),
                      completed |-> FALSE,
                      created_at |-> strftime(now)]
         IN  [self |-> [todos |-> <<todo>> \o self.todos,
                        next_id |-> self.next_id + 1],
              error |-> ""]

\* a slip: `"id": len(self.todos) + 1`, the id taken from the length
add_todo_numbers_by_length(self, text, now) ==
    IF Falsy(text) \/ strip(text.chars) = <<>>
    THEN [self |-> self, error |-> "Please enter a todo item"]
    ELSE LET todo == [id |-> Len(self.todos) + 1,
                      text |-> strip(text.chars),
                      completed |-> FALSE,
                      created_at |-> strftime(now)]
         IN  [self |-> [todos |-> Append(self.todos, todo),
                        next_id |-> self.next_id + 1],
              error |-> ""]

\* TodoApp.add_todo
add_todo(self, text, now) ==
    IF Falsy(text) \/ strip(text.chars) = <<>>
    THEN [self |-> self, error |-> "Please enter a todo item"]
    ELSE LET todo == [id |-> self.next_id,
                      text |-> strip(text.chars),
                      completed |-> FALSE,
                      created_at |-> strftime(now)]
         IN  [self |-> [todos |-> Append(self.todos, todo),
                        next_id |-> self.next_id + 1],
              error |-> ""]

\* a slip: `todo["completed"] = True`, marking done instead of flipping
toggle_todo_marks_done(self, todo_id) ==
    LET i == FirstMatch(self.todos, todo_id)
    IN  IF i = 0 THEN self
        ELSE [self EXCEPT !.todos[i].completed = TRUE]

\* TodoApp.toggle_todo
toggle_todo(self, todo_id) ==
    LET i == FirstMatch(self.todos, todo_id)
    IN  IF i = 0 THEN self
        ELSE [self EXCEPT !.todos[i].completed = ~self.todos[i].completed]

\* a slip: the counter recomputed from the list after a removal
delete_todo_renumbers(self, todo_id) ==
    LET Keep(todo) == todo.id # todo_id
        kept == SelectSeq(self.todos, Keep)
    IN  [todos |-> kept, next_id |-> Len(kept) + 1]

\* a slip: `==` for `!=` in the comprehension
delete_todo_keeps_match(self, todo_id) ==
    LET Keep(todo) == todo.id = todo_id
    IN  [self EXCEPT !.todos = SelectSeq(self.todos, Keep)]

\* TodoApp.delete_todo
delete_todo(self, todo_id) ==
    LET Keep(todo) == todo.id # todo_id
    IN  [self EXCEPT !.todos = SelectSeq(self.todos, Keep)]

\* a slip: an edited todo is pending again
edit_todo_reopens(self, todo_id, new_text) ==
    IF Falsy(new_text) \/ strip(new_text.chars) = <<>>
    THEN self
    ELSE LET i == FirstMatch(self.todos, todo_id)
         IN  IF i = 0 THEN self
             ELSE [self EXCEPT !.todos[i].text = strip(new_text.chars),
                               !.todos[i].completed = FALSE]

\* a slip: `todo["text"] = new_text`, the text stored as it was typed
edit_todo_unstripped(self, todo_id, new_text) ==
    IF Falsy(new_text) \/ strip(new_text.chars) = <<>>
    THEN self
    ELSE LET i == FirstMatch(self.todos, todo_id)
         IN  IF i = 0 THEN self
             ELSE [self EXCEPT !.todos[i].text = new_text.chars]

\* a slip: the edited todo stored as a new dict, under a new id
edit_todo_replaces_record(self, todo_id, new_text) ==
    IF Falsy(new_text) \/ strip(new_text.chars) = <<>>
    THEN self
    ELSE LET i == FirstMatch(self.todos, todo_id)
         IN  IF i = 0 THEN self
             ELSE [todos |-> [self.todos EXCEPT ![i] =
                                [id |-> self.next_id,
                                 text |-> strip(new_text.chars),
                                 completed |-> self.todos[i].completed,
                                 created_at |-> self.todos[i].created_at]],
                   next_id |-> self.next_id + 1]

\* TodoApp.edit_todo
edit_todo(self, todo_id, new_text) ==
    IF Falsy(new_text) \/ strip(new_text.chars) = <<>>
    THEN self
    ELSE LET i == FirstMatch(self.todos, todo_id)
         IN  IF i = 0 THEN self
             ELSE [self EXCEPT !.todos[i].text = strip(new_text.chars)]

\* a slip: `not` left out of the comprehension
clear_completed_keeps_done(self) ==
    LET Keep(todo) == todo.completed
    IN  [self EXCEPT !.todos = SelectSeq(self.todos, Keep)]

\* TodoApp.clear_completed
clear_completed(self) ==
    LET Keep(todo) == ~todo.completed
    IN  [self EXCEPT !.todos = SelectSeq(self.todos, Keep)]

----------------------------------------------------------------------------
(* The state machine: calls of the methods *)

\* what kind of text a call was passed
TextKind(t) ==
    IF t = None THEN "None"
    ELSE IF t.chars = <<>> THEN "empty"
    ELSE IF \A i \in 1..Len(t.chars) : t.chars[i] \in Whitespace THEN "blank"
    ELSE IF t.chars[1] \in Whitespace \/ t.chars[Len(t.chars)] \in Whitespace THEN "padded"
    ELSE "plain"

\* text of a call that takes none
NoText == "n/a"

\* the call op: the kind of text it was passed, the error it returned and
\* whether it changed the object
Call(op, text, error, changed) ==
    [op |-> op, text |-> text, error |-> error, changed |-> changed]

\* the worker threads that run the handlers of two requests
Threads == {1, 2}

\* a thread that is in no call of add_todo: it has no local `todo`
Idle == [pc |-> "idle", todo |-> <<>>]

Init ==
    /\ todos = TodoApp.todos
    /\ next_id = TodoApp.next_id
    /\ issued = {}
    /\ last = Call("__init__", NoText, "", FALSE)
    /\ requests = [t \in Threads |-> Idle]

\* the object becomes self, and the call is recorded
Returns(self, op, text, error) ==
    /\ todos' = self.todos
    /\ next_id' = self.next_id
    /\ last' = Call(op, text, error, self # Self)
    /\ UNCHANGED requests

AddTodo ==
    \E text \in TextInputs, now \in Now :
        LET r == add_todo(Self, text, now)
        IN  /\ r.error = "" => next_id <= MaxId
            /\ Returns(r.self, "add_todo", TextKind(text), r.error)
            /\ issued' = IF r.error = ""
                         THEN issued \cup {r.self.todos[Len(r.self.todos)].id}
                         ELSE issued

ToggleTodo ==
    \E todo_id \in TodoIds :
        /\ Returns(toggle_todo(Self, todo_id), "toggle_todo", NoText, "")
        /\ UNCHANGED issued

DeleteTodo ==
    \E todo_id \in TodoIds :
        /\ Returns(delete_todo(Self, todo_id), "delete_todo", NoText, "")
        /\ UNCHANGED issued

EditTodo ==
    \E todo_id \in TodoIds, new_text \in TextInputs :
        /\ Returns(edit_todo(Self, todo_id, new_text), "edit_todo", TextKind(new_text), "")
        /\ UNCHANGED issued

ClearCompleted ==
    /\ Returns(clear_completed(Self), "clear_completed", NoText, "")
    /\ UNCHANGED issued

Next ==
    \/ AddTodo
    \/ ToggleTodo
    \/ DeleteTodo
    \/ EditTodo
    \/ ClearCompleted

Spec == Init /\ [][Next]_vars

----------------------------------------------------------------------------
(* The event handlers: what the UI passes them, and what they return.      *)
(* A handler maps the object and its arguments to the object after the     *)
(* call, the exception it raised ("" if none) and the tuple of its outputs *)
(* (empty if it raised).                                                   *)

\* a number typed as a todo id: its integer part and its first decimal
Num(int, tenth) == [kind |-> "number", int |-> int, tenth |-> tenth, chars |-> <<>>]

\* no todo id typed
NoneId == [kind |-> "None", int |-> 0, tenth |-> 0, chars |-> <<>>]

\* a str passed as a todo id
StrId(s) == [kind |-> "str", int |-> 0, tenth |-> 0, chars |-> s]

Digits == <<"0", "1", "2", "3", "4", "5", "6", "7", "8", "9">>

IsDigit(c) == \E d \in 1..Len(Digits) : Digits[d] = c

DigitValue(c) == (CHOOSE d \in 1..Len(Digits) : Digits[d] = c) - 1

RECURSIVE Decimal(_)
Decimal(s) ==
    IF s = <<>> THEN 0
    ELSE 10 * Decimal(SubSeq(s, 1, Len(s) - 1)) + DigitValue(s[Len(s)])

\* int(todo_id): a number loses its decimals, a str of digits is read as a
\* decimal, any other str raises ValueError
int(x) ==
    IF x.kind = "number" THEN [raised |-> "", value |-> x.int]
    ELSE IF x.chars # <<>> /\ \A k \in 1..Len(x.chars) : IsDigit(x.chars[k])
    THEN [raised |-> "", value |-> Decimal(x.chars)]
    ELSE [raised |-> "ValueError", value |-> 0]

\* what may reach a handler as todo_id: nothing, the number of any id, a
\* number with decimals, a str of digits and a str that is no number
IdInputs ==
    {NoneId}
    \cup {Num(n, 0) : n \in TodoIds}
    \cup {Num(1, 5), StrId(<<"2">>), StrId(<<"<">>)}

\* what the text boxes may pass: nothing, an empty or a whitespace-only text,
\* and each word as it is and with whitespace around it
UiTexts ==
    {None, Str(<<>>), Str(<<" ">>)}
    \cup {Str(w) : w \in Words}
    \cup {Str(<<" ">> \o w \o <<" ">>) : w \in Words}

Raises(self, exception) == [self |-> self, raised |-> exception, outputs |-> <<>>]

Outputs(self, outputs) == [self |-> self, raised |-> "", outputs |-> outputs]

\* add_todo_handler
add_todo_handler(self, text, now) ==
    LET r == add_todo(self, text, now)
    IN  Outputs(r.self,
                <<get_todos_display(r.self), "",
                  IF r.error # "" THEN r.error ELSE "Todo added successfully!">>)

\* a slip: a status that tells the user when no todo has the id
toggle_todo_handler_reports_missing(self, todo_id) ==
    IF todo_id # NoneId
    THEN LET n == int(todo_id)
         IN  IF n.raised # "" THEN Raises(self, n.raised)
             ELSE LET after == toggle_todo(self, n.value)
                  IN  Outputs(after,
                              <<get_todos_display(after),
                                IF after = self THEN "Todo not found"
                                ELSE "Todo status updated!">>)
    ELSE Outputs(self, <<get_todos_display(self), "Please enter a valid todo ID">>)

\* toggle_todo_handler
toggle_todo_handler(self, todo_id) ==
    IF todo_id # NoneId
    THEN LET n == int(todo_id)
         IN  IF n.raised # "" THEN Raises(self, n.raised)
             ELSE LET after == toggle_todo(self, n.value)
                  IN  Outputs(after, <<get_todos_display(after), "Todo status updated!">>)
    ELSE Outputs(self, <<get_todos_display(self), "Please enter a valid todo ID">>)

\* delete_todo_handler
delete_todo_handler(self, todo_id) ==
    IF todo_id # NoneId
    THEN LET n == int(todo_id)
         IN  IF n.raised # "" THEN Raises(self, n.raised)
             ELSE LET after == delete_todo(self, n.value)
                  IN  Outputs(after, <<get_todos_display(after), "Todo deleted!">>)
    ELSE Outputs(self, <<get_todos_display(self), "Please enter a valid todo ID">>)

\* edit_todo_handler
edit_todo_handler(self, todo_id, new_text) ==
    IF todo_id # NoneId /\ ~Falsy(new_text)
    THEN LET n == int(todo_id)
         IN  IF n.raised # "" THEN Raises(self, n.raised)
             ELSE LET after == edit_todo(self, n.value, new_text)
                  IN  Outputs(after, <<get_todos_display(after), "", "Todo updated!">>)
    ELSE Outputs(self,
                 <<get_todos_display(self), "", "Please enter valid todo ID and text">>)

\* clear_completed_handler
clear_completed_handler(self) ==
    LET after == clear_completed(self)
    IN  Outputs(after, <<get_todos_display(after), "Completed todos cleared!">>)

\* a slip: a refresh that tidies the list up
refresh_clears(self) ==
    LET after == clear_completed(self)
    IN  Outputs(after, <<get_todos_display(after), "Refreshed!">>)

\* refresh_btn.click: lambda: (todo_app.get_todos_display(), "Refreshed!")
refresh(self) == Outputs(self, <<get_todos_display(self), "Refreshed!">>)

\* the object becomes r.self, and the handler, the kind of text it was passed,
\* the status it returned or the exception it raised, are recorded
Handled(r, op, text) ==
    /\ todos' = r.self.todos
    /\ next_id' = r.self.next_id
    /\ last' = Call(op, text,
                    IF r.raised # "" THEN r.raised ELSE r.outputs[Len(r.outputs)],
                    r.self # Self)
    /\ UNCHANGED requests

AddTodoHandler ==
    \E text \in UiTexts, now \in Now :
        LET r == add_todo_handler(Self, text, now)
        IN  /\ r.self # Self => next_id <= MaxId
            /\ Handled(r, "add_todo_handler", TextKind(text))
            /\ issued' = IF r.self # Self
                         THEN issued \cup {r.self.todos[Len(r.self.todos)].id}
                         ELSE issued

ToggleTodoHandler ==
    \E todo_id \in IdInputs :
        /\ Handled(toggle_todo_handler(Self, todo_id), "toggle_todo_handler", NoText)
        /\ UNCHANGED issued

DeleteTodoHandler ==
    \E todo_id \in IdInputs :
        /\ Handled(delete_todo_handler(Self, todo_id), "delete_todo_handler", NoText)
        /\ UNCHANGED issued

EditTodoHandler ==
    \E todo_id \in IdInputs, new_text \in UiTexts :
        /\ Handled(edit_todo_handler(Self, todo_id, new_text), "edit_todo_handler",
                   TextKind(new_text))
        /\ UNCHANGED issued

ClearCompletedHandler ==
    /\ Handled(clear_completed_handler(Self), "clear_completed_handler", NoText)
    /\ UNCHANGED issued

Refresh ==
    /\ Handled(refresh(Self), "refresh", NoText)
    /\ UNCHANGED issued

HandlerNext ==
    \/ AddTodoHandler
    \/ ToggleTodoHandler
    \/ DeleteTodoHandler
    \/ EditTodoHandler
    \/ ClearCompletedHandler
    \/ Refresh

\* the program as the UI drives it: every step is an event handler
HandlerSpec == Init /\ [][HandlerNext]_vars

----------------------------------------------------------------------------
(* Two requests at once: the statements of add_todo, delete_todo and       *)
(* clear_completed run by two threads on the one todo_app, with no lock,   *)
(* a thread being switched between any two statements.                     *)

\* the texts of the requests made at once
ConcurrentTexts == {None, Str(<<"<">>), Str(<<" ", "<", " ">>)}

\* add_todo up to `todo = {...}`: the test of the text, and the dict built
\* with the next_id that the thread reads now
BuildTodo(t) ==
    /\ requests[t] = Idle
    /\ \E text \in ConcurrentTexts, now \in Now :
          IF Falsy(text) \/ strip(text.chars) = <<>>
          THEN /\ last' = Call("add_todo", TextKind(text), "Please enter a todo item", FALSE)
               /\ UNCHANGED <<todos, next_id, issued, requests>>
          ELSE /\ next_id <= MaxId
               /\ requests' = [requests EXCEPT ![t] =
                                 [pc |-> "append",
                                  todo |-> <<[id |-> next_id,
                                              text |-> strip(text.chars),
                                              completed |-> FALSE,
                                              created_at |-> strftime(now)]>>]]
               /\ last' = Call("add_todo", TextKind(text), "", FALSE)
               /\ UNCHANGED <<todos, next_id, issued>>

\* add_todo: `self.todos.append(todo)`
AppendTodo(t) ==
    /\ requests[t].pc = "append"
    /\ todos' = Append(todos, requests[t].todo[1])
    /\ issued' = issued \cup {requests[t].todo[1].id}
    /\ requests' = [requests EXCEPT ![t].pc = "increment"]
    /\ last' = Call("add_todo", NoText, "", TRUE)
    /\ UNCHANGED next_id

\* add_todo: `self.next_id += 1`, and the return
IncrementNextId(t) ==
    /\ requests[t].pc = "increment"
    /\ next_id' = next_id + 1
    /\ requests' = [requests EXCEPT ![t] = Idle]
    /\ last' = Call("add_todo", NoText, "", TRUE)
    /\ UNCHANGED <<todos, issued>>

\* delete_todo, whose one statement writes self.todos, run by a thread
\* that is in no add_todo
ConcurrentDeleteTodo(t) ==
    /\ requests[t] = Idle
    /\ DeleteTodo

\* clear_completed, whose one statement writes self.todos
ConcurrentClearCompleted(t) ==
    /\ requests[t] = Idle
    /\ ClearCompleted

\* toggle_todo, run while no other request is in progress
SerialToggleTodo ==
    /\ \A t \in Threads : requests[t] = Idle
    /\ ToggleTodo

ConcurrentNext ==
    \/ \E t \in Threads : BuildTodo(t)
    \/ \E t \in Threads : AppendTodo(t)
    \/ \E t \in Threads : IncrementNextId(t)
    \/ \E t \in Threads : ConcurrentDeleteTodo(t)
    \/ \E t \in Threads : ConcurrentClearCompleted(t)
    \/ SerialToggleTodo

ConcurrentSpec == Init /\ [][ConcurrentNext]_vars

----------------------------------------------------------------------------
(* Vocabulary of the properties, stated without the methods' definitions *)

Ids(ts) == {ts[i].id : i \in 1..Len(ts)}

\* text is absent, empty or whitespace only
Blank(t) == t = None \/ \A i \in 1..Len(t.chars) : t.chars[i] \in Whitespace

\* t is s without the whitespace around it, and is not empty
IsTrimOf(t, s) ==
    \E i, j \in 1..Len(s) :
        /\ i <= j
        /\ s[i] \notin Whitespace
        /\ s[j] \notin Whitespace
        /\ \A k \in (1..(i - 1)) \cup ((j + 1)..Len(s)) : s[k] \in Whitespace
        /\ t = SubSeq(s, i, j)

\* the records of ts at the positions Kept, in the order they have in ts
Remaining(ts, Kept) ==
    [k \in 1..Cardinality(Kept) |->
        ts[CHOOSE i \in Kept : Cardinality({j \in Kept : j < i}) = k - 1]]

----------------------------------------------------------------------------
(* C1: in every reachable state the ids of the records in the store are    *)
(* pairwise distinct.                                                      *)
C1_UniqueIds ==
    \A i, j \in 1..Len(todos) : i # j => todos[i].id # todos[j].id

\* three records are in the store, the last one just added
C1_Witness ==
    /\ last.op = "add_todo"
    /\ last.changed
    /\ Len(todos) >= 3

(* C2: ids are never reused: next_id never decreases, and the id a         *)
(* successful add_todo gives is strictly greater than every id given       *)
(* before it, the records since removed included.                          *)
C2_IdsNeverReused ==
    [][/\ next_id' >= next_id
       /\ \A new \in issued' \ issued : \A old \in issued : new > old
       /\ (last'.op = "add_todo" /\ last'.error = "")
            => /\ Len(todos') > 0
               /\ todos'[Len(todos')].id \in issued' \ issued]_vars

\* an add after the removal of the records added before it
C2_Witness ==
    /\ last.op = "add_todo"
    /\ last.changed
    /\ Len(todos) = 1
    /\ Cardinality(issued) >= 3

(* C3: add_todo with text that is absent, empty or whitespace only returns *)
(* a non-empty validation message and leaves the record sequence and       *)
(* next_id as they were.                                                   *)
C3_BlankAddRejected ==
    \A text \in TextInputs, now \in Now :
        Blank(text) =>
            LET r == add_todo(Self, text, now)
            IN  /\ r.error # ""
                /\ r.self.todos = todos
                /\ r.self.next_id = next_id

\* a whitespace-only text was refused while the store held a record
C3_Witness ==
    /\ last.op = "add_todo"
    /\ last.text = "blank"
    /\ last.error # ""
    /\ todos # <<>>

(* C4: add_todo with text whose trimmed form is not empty appends exactly  *)
(* one record at the end, with id = next_id before the call, completed =   *)
(* false and text = the trimmed input; next_id grows by exactly 1, the     *)
(* error returned is empty and the earlier records keep their fields and   *)
(* positions.                                                              *)
C4_AddAppends ==
    \A text \in TextInputs, now \in Now :
        ~Blank(text) =>
            LET r == add_todo(Self, text, now)
                n == Len(todos)
            IN  /\ r.error = ""
                /\ Len(r.self.todos) = n + 1
                /\ SubSeq(r.self.todos, 1, n) = todos
                /\ r.self.todos[n + 1].id = next_id
                /\ r.self.todos[n + 1].completed = FALSE
                /\ IsTrimOf(r.self.todos[n + 1].text, text.chars)
                /\ r.self.next_id = next_id + 1

\* a text with whitespace around it was added after two earlier records
C4_Witness ==
    /\ last.op = "add_todo"
    /\ last.text = "padded"
    /\ last.error = ""
    /\ Len(todos) >= 3
    /\ todos[Len(todos)].id = next_id - 1

(* C5: toggle_todo(id) on an id in the store flips the completed flag of   *)
(* that record and changes nothing else; a second toggle_todo(id) right    *)
(* after it restores the store.                                            *)
C5_ToggleFlips ==
    \A todo_id \in Ids(todos) :
        LET r == toggle_todo(Self, todo_id)
        IN  /\ r.next_id = next_id
            /\ Len(r.todos) = Len(todos)
            /\ \A i \in 1..Len(todos) :
                    r.todos[i] = IF todos[i].id = todo_id
                                 THEN [todos[i] EXCEPT !.completed = ~todos[i].completed]
                                 ELSE todos[i]
            /\ toggle_todo(r, todo_id) = Self

\* a record of a store of three, some completed and some not, was toggled
C5_Witness ==
    /\ last.op = "toggle_todo"
    /\ last.changed
    /\ Len(todos) >= 3
    /\ \E i, j \in 1..Len(todos) : todos[i].completed /\ ~todos[j].completed

(* C6: for an id that is not in the store, toggle_todo(id), edit_todo(id,  *)
(* any text) and delete_todo(id) leave the record sequence and next_id as  *)
(* they were.                                                              *)
C6_AbsentIdNoOp ==
    \A todo_id \in TodoIds \ Ids(todos) :
        /\ toggle_todo(Self, todo_id) = Self
        /\ delete_todo(Self, todo_id) = Self
        /\ \A new_text \in TextInputs : edit_todo(Self, todo_id, new_text) = Self

\* a toggle changed nothing in a store of three records: none had the id
C6_Witness ==
    /\ last.op = "toggle_todo"
    /\ ~last.changed
    /\ Len(todos) >= 3

(* C7: delete_todo(id) on an id in the store removes exactly one record,   *)
(* the one with that id; the other records stay, with their fields and     *)
(* their relative order, and next_id is unchanged.                         *)
C7_DeleteRemovesOne ==
    \A todo_id \in Ids(todos) :
        LET r == delete_todo(Self, todo_id)
        IN  /\ r.next_id = next_id
            /\ Len(r.todos) = Len(todos) - 1
            /\ todo_id \notin Ids(r.todos)
            /\ r.todos = Remaining(todos, {i \in 1..Len(todos) : todos[i].id # todo_id})

\* a record was deleted and two others are left
C7_Witness ==
    /\ last.op = "delete_todo"
    /\ last.changed
    /\ Len(todos) >= 2

(* C8: edit_todo(id, new_text) with empty or whitespace-only new_text      *)
(* changes nothing; with any other new_text and an id in the store it sets *)
(* that record's text to the trimmed new_text and leaves its id, completed *)
(* and created_at, the other records, the order and next_id untouched.     *)
C8_EditChangesOnlyText ==
    \A todo_id \in TodoIds, new_text \in TextInputs :
        LET r == edit_todo(Self, todo_id, new_text)
        IN  /\ Blank(new_text) => r = Self
            /\ (~Blank(new_text) /\ todo_id \in Ids(todos)) =>
                /\ r.next_id = next_id
                /\ Len(r.todos) = Len(todos)
                /\ \A i \in 1..Len(todos) :
                    IF todos[i].id = todo_id
                    THEN /\ IsTrimOf(r.todos[i].text, new_text.chars)
                         /\ r.todos[i].id = todos[i].id
                         /\ r.todos[i].completed = todos[i].completed
                         /\ r.todos[i].created_at = todos[i].created_at
                    ELSE r.todos[i] = todos[i]

\* the text of a record was replaced by a text passed with whitespace around
\* it, in a store of three records, some of them completed
C8_Witness ==
    /\ last.op = "edit_todo"
    /\ last.text = "padded"
    /\ last.changed
    /\ Len(todos) >= 3
    /\ \E i \in 1..Len(todos) : todos[i].completed

(* C9: clear_completed removes every record with completed = true and no   *)
(* record with completed = false, keeps the records left unchanged and in  *)
(* their relative order, leaves next_id unchanged, and a second            *)
(* clear_completed right after the first changes nothing.                  *)
C9_ClearCompleted ==
    LET r == clear_completed(Self)
    IN  /\ r.next_id = next_id
        /\ r.todos = Remaining(todos, {i \in 1..Len(todos) : ~todos[i].completed})
        /\ \A i \in 1..Len(r.todos) : ~r.todos[i].completed
        /\ clear_completed(r) = r

\* completed records were cleared and two pending records are left
C9_Witness ==
    /\ last.op = "clear_completed"
    /\ last.changed
    /\ Len(todos) >= 2

(* C10: in every reachable state every record of the store has a text that *)
(* is not empty and has no whitespace at its start or its end.             *)
C10_TextTrimmed ==
    \A i \in 1..Len(todos) :
        /\ todos[i].text # <<>>
        /\ todos[i].text[1] \notin Whitespace
        /\ todos[i].text[Len(todos[i].text)] \notin Whitespace

\* an edit with a padded text changed a record, and the store holds texts
\* of one word and of several
C10_Witness ==
    /\ last.op = "edit_todo"
    /\ last.text = "padded"
    /\ last.changed
    /\ \E i, j \in 1..Len(todos) :
        /\ Len(todos[i].text) = 1
        /\ Len(todos[j].text) > 1

(* C11: get_todos_display returns the empty-state output exactly when the  *)
(* store has no records; for a store that is not empty the summary has     *)
(* total = the number of records, completed = the number of records with   *)
(* completed = true and pending = total - completed, so that total =       *)
(* completed + pending.                                                    *)
C11_DisplayCounts ==
    LET d == get_todos_display(Self)
        Done(todo) == todo.completed
        Pending(todo) == ~todo.completed
    IN  /\ d.empty <=> Len(todos) = 0
        /\ Len(todos) > 0 =>
            /\ d.total = Len(todos)
            /\ d.completed = Len(SelectSeq(todos, Done))
            /\ d.pending = Len(SelectSeq(todos, Pending))
            /\ d.pending = d.total - d.completed
            /\ d.total = d.completed + d.pending

\* a store of three records, some completed and some pending
C11_Witness ==
    /\ Len(todos) = 3
    /\ \E i, j \in 1..Len(todos) : todos[i].completed /\ ~todos[j].completed
    /\ get_todos_display(Self).completed \in {1, 2}

\* the characters that are significant in markup
MarkupChars == {"<", ">", "&"}

\* the character references an escaped text may hold
Entities == {<<"&", "l", "t", ";">>, <<"&", "g", "t", ";">>, <<"&", "a", "m", "p", ";">>}

\* s holds no markup character, but for the "&" that starts a character reference
IsEscaped(s) ==
    \A k \in 1..Len(s) :
        s[k] \in MarkupChars =>
            \E e \in Entities :
                /\ k + Len(e) - 1 <= Len(s)
                /\ SubSeq(s, k, k + Len(e) - 1) = e

(* C12: the text inserted into the rendered output is escaped: for every   *)
(* record, get_todos_display never emits the record's text with a          *)
(* markup-significant character ('<', '>', '&') unescaped.                 *)
C12_TextEscaped ==
    LET d == get_todos_display(Self)
    IN  \A i \in 1..Len(d.rows) : IsEscaped(d.rows[i].text)

\* a todo id that is missing, or a str that is not a number
MissingOrNonNumeric(x) ==
    \/ x.kind = "None"
    \/ x.kind = "str" /\ (x.chars = <<>> \/ \E k \in 1..Len(x.chars) : ~IsDigit(x.chars[k]))

\* the statuses that tell the user the operation was done
SuccessStatuses == {"Todo status updated!", "Todo deleted!", "Todo updated!"}

\* the handler returned, with a status that is no success, and changed nothing
Rejected(r) ==
    /\ r.raised = ""
    /\ r.outputs[Len(r.outputs)] \notin SuccessStatuses
    /\ r.self = Self

(* C13: when the toggle, delete or edit handler is invoked with a missing  *)
(* or non-numeric id, it does not crash, it returns a user-facing message  *)
(* instead of a success status, and the record sequence and next_id are    *)
(* left unchanged.                                                         *)
C13_BadIdRejected ==
    \A todo_id \in IdInputs :
        MissingOrNonNumeric(todo_id) =>
            /\ Rejected(toggle_todo_handler(Self, todo_id))
            /\ Rejected(delete_todo_handler(Self, todo_id))
            /\ \A new_text \in UiTexts : Rejected(edit_todo_handler(Self, todo_id, new_text))

(* C14 as claimed: the toggle operation reports found / not found, its     *)
(* result telling that a record with the id exists when one does and that  *)
(* none does when none does.                                               *)
C14_ReportsFound ==
    \A n \in TodoIds :
        LET r == toggle_todo_handler(Self, Num(n, 0))
        IN  r.outputs[Len(r.outputs)] \in SuccessStatuses <=> n \in Ids(todos)

(* C14, amended: the toggle operation does not report found / not found.   *)
(* toggle_todo_handler returns the rendering of the store after the call   *)
(* and the status "Todo status updated!" for every numeric id, found or    *)
(* not; that a record had the id shows only in the store having changed.   *)
(* Likewise edit_todo_handler, passed a text that is not empty, returns    *)
(* the rendering and the status "Todo updated!" for every numeric id.      *)
C14_StatusSameFoundOrNot ==
    \A n \in TodoIds :
        LET r == toggle_todo_handler(Self, Num(n, 0))
        IN  /\ r.raised = ""
            /\ r.outputs = <<get_todos_display(r.self), "Todo status updated!">>
            /\ r.self # Self <=> n \in Ids(todos)
            /\ \A new_text \in UiTexts :
                ~Falsy(new_text) =>
                    LET e == edit_todo_handler(Self, Num(n, 0), new_text)
                    IN  /\ e.raised = ""
                        /\ e.outputs = <<get_todos_display(e.self), "", "Todo updated!">>

\* the toggle handler reported "Todo status updated!" and changed nothing in
\* a store of two records or more: no record had the id
C14_Witness ==
    /\ last.op = "toggle_todo_handler"
    /\ last.error = "Todo status updated!"
    /\ ~last.changed
    /\ Len(todos) >= 2

Identity(ts) == [i \in 1..Len(ts) |-> <<ts[i].id, ts[i].created_at>>]

(* C16: the id and the created_at of a record do not change from the state *)
(* in which add_todo creates it until the state in which delete_todo or    *)
(* clear_completed removes it: toggle_todo and edit_todo leave the ids and *)
(* created_at of all records as they were, add_todo only appends a record  *)
(* to them, delete_todo and clear_completed only take records away.        *)
C16_IdAndCreatedAtImmutable ==
    [][LET before == Identity(todos)
           after == Identity(todos')
       IN  \/ /\ last'.op \in {"toggle_todo", "edit_todo"}
              /\ after = before
           \/ /\ last'.op = "add_todo"
              /\ \/ after = before
                 \/ /\ Len(after) = Len(before) + 1
                    /\ SubSeq(after, 1, Len(before)) = before
           \/ /\ last'.op \in {"delete_todo", "clear_completed"}
              /\ \E Kept \in SUBSET (1..Len(before)) : after = Remaining(before, Kept)]_vars

\* an edit changed a record in a store whose records were created at
\* different times, after the removal of another record
C16_Witness ==
    /\ last.op = "edit_todo"
    /\ last.changed
    /\ Cardinality(issued) > Len(todos)
    /\ \E i, j \in 1..Len(todos) : todos[i].created_at # todos[j].created_at

(* C18: under sequential use, in every reachable state the records of the  *)
(* store are in strictly increasing id order, every id is at least 1 and   *)
(* below next_id, and next_id is 1 plus the number of successful add_todo  *)
(* calls so far (each of which issued one id).                             *)
C18_SequentialInvariant ==
    /\ \A i, j \in 1..Len(todos) : i < j => todos[i].id < todos[j].id
    /\ \A i \in 1..Len(todos) : 1 <= todos[i].id /\ todos[i].id < next_id
    /\ next_id = 1 + Cardinality(issued)

\* a delete took the middle record of three away: the ids left are 1 and 3
C18_Witness ==
    /\ last.op = "delete_todo"
    /\ last.changed
    /\ Len(todos) = 2
    /\ todos[1].id = 1
    /\ todos[2].id = 3
    /\ next_id = 4

(* C17: when two requests are handled at once on the shared todo_app, with *)
(* no lock, the store is one that a serial order of the calls produces:    *)
(* two add_todo calls never give records the same id, and whenever no call *)
(* is in progress the ids are in strictly increasing order and below       *)
(* next_id, as after every serial order.                                   *)
C17_ConcurrentSerializable ==
    /\ \A i, j \in 1..Len(todos) : i # j => todos[i].id # todos[j].id
    /\ (\A t \in Threads : requests[t] = Idle) =>
          /\ \A i, j \in 1..Len(todos) : i < j => todos[i].id < todos[j].id
          /\ \A i \in 1..Len(todos) : todos[i].id < next_id

====
